---- MODULE Spec2Model ----
(***************************************************************************)
(* Hover-to-highlight helpers of html_report/js/highlight.js:              *)
(*   setupHighlight, setupAllHighlights  (the highlight controller)        *)
(*   getTeamColors                       (the palette generator)           *)
(*   createTeamLineChart                 (the chart factory)               *)
(*                                                                         *)
(* Numbers.  Opacities are held in hundredths (1.0 is 100, 0.15 is 15) and *)
(* line widths in tenths (4 is 40, 1.5 is 15, 2 is 20), so that every      *)
(* literal of the source is an integer here.  A JavaScript object is a     *)
(* TLA+ function from property names to values; a property that is absent  *)
(* (reads as undefined) is absent from the DOMAIN.  A JavaScript string    *)
(* built by concatenation is the sequence of the pieces concatenated.      *)
(***************************************************************************)
EXTENDS Integers, Sequences, FiniteSets, TLC

\* ------------------------------------------------------------ bounds
MaxTraces == 3          \* most series of a chart the page rendered itself
MaxAttached == 1        \* most controllers on the chart under the pointer (Spec)
MaxControllers == 2     \* most controllers subscribed, over all surfaces
MaxWarnings == 1        \* most console warnings logged
MaxSeriesChanges == 1   \* most addTraces/deleteTraces calls per chart
MaxIds == 2             \* longest id list handed to setupAllHighlights
MaxColors == 184        \* largest numTeams handed to getTeamColors
MaxTeams == 2           \* most team records handed to createTeamLineChart

\* ------------------------------------------------- program constants
FullOpacity == 100      \* 1.0
DimOpacity == 15        \* 0.15
HoverWidth == 40        \* 4
DimWidth == 15          \* 1.5
DefaultWidth == 20      \* 2
TraceWidth == 20        \* 2, the line width createTeamLineChart gives
MarkerSize == 6

VARIABLES
    data,           \* plotDiv.data of each surface: the chart's traces
    controllers,    \* per surface, the closures setupHighlight subscribed,
                    \*   in subscription order: each is one
                    \*   (originalOpacities, originalLineWidths) pair
    hoverdata,      \* per surface, whether the pointer is over a trace
    pending,        \* surfaces whose Plotly.newPlot promise is unresolved
    warnings,       \* console.warn messages logged so far
    restyled,       \* the Plotly.restyle calls of the last operation
    newPlotCalls,   \* the Plotly.newPlot calls issued so far
    colors,         \* the array the last getTeamColors call returned
    defaultLayout,  \* the global default layout object
    defaultConfig,  \* the global default config object
    last,           \* the last operation and its arguments
    original,       \* history: each chart's traces just before the first
                    \*   hover event a controller received
    hovered,        \* history: surfaces whose controllers received a hover
    seriesChanges   \* history: addTraces/deleteTraces calls per surface

vars == <<data, controllers, hoverdata, pending, warnings, restyled,
          newPlotCalls, colors, defaultLayout, defaultConfig, last,
          original, hovered, seriesChanges>>

\* ------------------------------------------------------------ helpers

\* o[p] is truthy: present and not 0 (the values here are numbers).
Truthy(o, p) == p \in DOMAIN o /\ o[p] # 0

\* Object.assign({}, a, b) and property assignment o[p] = v.
ObjectAssign(a, b) ==
    [k \in DOMAIN a \cup DOMAIN b |-> IF k \in DOMAIN b THEN b[k] ELSE a[k]]
SetProp(o, p, v) == [k \in DOMAIN o \cup {p} |-> IF k = p THEN v ELSE o[k]]

\* ------------------------------------------------------ getTeamColors
(***************************************************************************)
(* A JavaScript number is [nan, num, den]: NaN, or the rational num/den.   *)
(* The source computes in IEEE doubles.  With the operands of this file    *)
(* a double result differs from the exact one by far less than the         *)
(* distance of a non-tie from the rounding boundary, so Math.round agrees  *)
(* with exact round-half-up except where the exact value is a tie (k+1/2)  *)
(* and the ratio is not a dyadic fraction.  For numTeams below 319 those   *)
(* are the blue channel at ratio p/6, p/106 and the green channel at       *)
(* p/152; evaluated in doubles, all of them land on the tie exactly but    *)
(* 219 - 159 * (81/106) = 97.49999999999999 and                            *)
(* 219 - 159 * (83/106) = 94.49999999999999, which round down.             *)
(***************************************************************************)
StartColor == [r |-> 52, g |-> 152, b |-> 219]
EndColor == [r |-> 231, g |-> 76, b |-> 60]

NaN == [nan |-> TRUE, num |-> 0, den |-> 1]
Num(n) == [nan |-> FALSE, num |-> n, den |-> 1]

\* i / (numTeams - 1): 0/0 is NaN.
Divide(i, d) ==
    IF d = 0 THEN NaN ELSE [nan |-> FALSE, num |-> i, den |-> d]

\* The double from + (to - from) * ratio falls just short of an exact tie.
DoubleFallsShort(from, to, ratio) ==
    /\ from = 219 /\ to = 60
    /\ \/ ratio.num * 106 = 81 * ratio.den
       \/ ratio.num * 106 = 83 * ratio.den

\* Math.round(from + (to - from) * ratio): nearest integer, ties upward.
InterpolateMirrored(from, to, ratio) ==
    IF ratio.nan THEN NaN
    ELSE Num((2 * (to * ratio.den + (from - to) * ratio.num) + ratio.den)
                \div (2 * ratio.den))
InterpolateTruncated(from, to, ratio) ==
    IF ratio.nan THEN NaN
    ELSE Num((from * ratio.den + (to - from) * ratio.num) \div ratio.den)
Interpolate(from, to, ratio) ==
    IF ratio.nan THEN NaN
    ELSE Num(((2 * (from * ratio.den + (to - from) * ratio.num) + ratio.den)
                \div (2 * ratio.den))
             - (IF DoubleFallsShort(from, to, ratio) THEN 1 ELSE 0))

\* Number-to-string conversion of  '' + r.
NumberToString(x) == IF x.nan THEN "NaN" ELSE ToString(x.num)

\* 'rgb(' + r + ',' + g + ',' + b + ')'
RgbString(r, g, b) ==
    <<"rgb(", NumberToString(r), ",", NumberToString(g), ",",
      NumberToString(b), ")">>

\* One pass of the loop body, for loop index i (0-based).
TeamColor(i, numTeams) ==
    LET ratio == Divide(i, numTeams - 1)
    IN  RgbString(Interpolate(StartColor.r, EndColor.r, ratio),
                  Interpolate(StartColor.g, EndColor.g, ratio),
                  Interpolate(StartColor.b, EndColor.b, ratio))

\* The returned array: colors[i + 1] is the value pushed at loop index i.
getTeamColors(numTeams) == [j \in 1..numTeams |-> TeamColor(j - 1, numTeams)]

\* ----------------------------------------------------- setupHighlight
\* The surfaces: two elements of the document and an id that resolves to
\* nothing.  document.getElementById(id) finds an element or null.
Document == {"plotA", "plotB"}
PlotIds == Document \cup {"missing"}
getElementById(id) == id \in Document

EmptyObject == [k \in {} |-> 0]

\* The closure state of one setupHighlight call (lines 21-22).
NewController == [originalOpacities |-> <<>>, originalLineWidths |-> <<>>]

\* plotDiv.data[i].opacity || 1.0
OpacityOrDefault(trace) ==
    IF Truthy(trace, "opacity") THEN trace.opacity ELSE FullOpacity

\* plotDiv.data[i].line ? (plotDiv.data[i].line.width || 2) : 2
LineWidthOrDefault(trace) ==
    IF "line" \in DOMAIN trace
    THEN IF Truthy(trace.line, "width") THEN trace.line.width
         ELSE DefaultWidth
    ELSE DefaultWidth

\* "Save original values on first hover": the snapshot loop, run only
\* while originalOpacities is empty.
SaveOriginalEveryHover(c, traces) ==
    [originalOpacities |->
        [i \in 1..Len(traces) |-> OpacityOrDefault(traces[i])],
     originalLineWidths |->
        [i \in 1..Len(traces) |-> LineWidthOrDefault(traces[i])]]
SaveOriginal(c, traces) ==
    IF Len(c.originalOpacities) = 0
    THEN [originalOpacities |->
              [i \in 1..Len(traces) |-> OpacityOrDefault(traces[i])],
          originalLineWidths |->
              [i \in 1..Len(traces) |-> LineWidthOrDefault(traces[i])]]
    ELSE c

\* The update object of the hover handler: curveNumber is 0-based.
HoverUpdateShifted(numTraces, curveNumber) ==
    [opacity |-> [i \in 1..numTraces |->
                    IF i = curveNumber THEN FullOpacity ELSE DimOpacity],
     width   |-> [i \in 1..numTraces |->
                    IF i = curveNumber THEN HoverWidth ELSE DimWidth]]
HoverUpdate(numTraces, curveNumber) ==
    [opacity |-> [i \in 1..numTraces |->
                    IF i - 1 = curveNumber THEN FullOpacity ELSE DimOpacity],
     width   |-> [i \in 1..numTraces |->
                    IF i - 1 = curveNumber THEN HoverWidth ELSE DimWidth]]

\* originalOpacities[i] || 1.0  and  originalLineWidths[i] || 2
\* (an index past the end of the array reads undefined).
ElementOr(array, i, default) ==
    IF i <= Len(array) /\ array[i] # 0 THEN array[i] ELSE default

\* The update object of the unhover handler.
UnhoverUpdateNoDefault(c, numTraces) ==
    [opacity |-> [i \in 1..numTraces |->
                    IF i <= Len(c.originalOpacities)
                    THEN c.originalOpacities[i] ELSE 0],
     width   |-> [i \in 1..numTraces |->
                    IF i <= Len(c.originalLineWidths)
                    THEN c.originalLineWidths[i] ELSE 0]]
UnhoverUpdate(c, numTraces) ==
    [opacity |-> [i \in 1..numTraces |->
                    ElementOr(c.originalOpacities, i, FullOpacity)],
     width   |-> [i \in 1..numTraces |->
                    ElementOr(c.originalLineWidths, i, DefaultWidth)]]

\* Plotly.restyle(plotDiv, {'opacity': [...], 'line.width': [...]}): entry i
\* of each array becomes the attribute of trace i, in plotDiv.data, at once.
RestyleTrace(trace, opacity, width) ==
    LET line == IF "line" \in DOMAIN trace THEN trace.line ELSE EmptyObject
    IN  SetProp(SetProp(trace, "opacity", opacity),
                "line", SetProp(line, "width", width))
Restyle(traces, update) ==
    [i \in 1..Len(traces) |->
        RestyleTrace(traces[i], update.opacity[i], update.width[i])]

\* One plotly_hover handler (lines 24-58), run on the state the handlers
\* before it left: st = [cs: the controllers, traces: plotDiv.data,
\* calls: the restyle calls so far], j: this handler's controller.
HoverHandlerTwoCalls(st, j, plotId, curveNumber) ==
    LET numTraces == Len(st.traces)
        c == SaveOriginal(st.cs[j], st.traces)
        update == HoverUpdate(numTraces, curveNumber)
    IN  [cs |-> [st.cs EXCEPT ![j] = c],
         traces |-> Restyle(st.traces, update),
         calls |-> st.calls \o <<[gd |-> plotId, opacity |-> update.opacity],
                                 [gd |-> plotId, width |-> update.width]>>]
HoverHandler(st, j, plotId, curveNumber) ==
    LET numTraces == Len(st.traces)
        c == SaveOriginal(st.cs[j], st.traces)
        update == HoverUpdate(numTraces, curveNumber)
    IN  [cs |-> [st.cs EXCEPT ![j] = c],
         traces |-> Restyle(st.traces, update),
         calls |-> Append(st.calls, [gd |-> plotId,
                                     opacity |-> update.opacity,
                                     width |-> update.width])]

\* One plotly_unhover handler (lines 60-76).
UnhoverHandler(st, j, plotId) ==
    LET numTraces == Len(st.traces)
        update == UnhoverUpdate(st.cs[j], numTraces)
    IN  [cs |-> st.cs,
         traces |-> Restyle(st.traces, update),
         calls |-> Append(st.calls, [gd |-> plotId,
                                     opacity |-> update.opacity,
                                     width |-> update.width])]

\* The event emitter runs the subscribed handlers in subscription order.
RECURSIVE EmitHover(_, _, _, _)
EmitHover(st, j, plotId, curveNumber) ==
    IF j > Len(st.cs) THEN st
    ELSE EmitHover(HoverHandler(st, j, plotId, curveNumber), j + 1,
                   plotId, curveNumber)

RECURSIVE EmitUnhover(_, _, _)
EmitUnhover(st, j, plotId) ==
    IF j > Len(st.cs) THEN st
    ELSE EmitUnhover(UnhoverHandler(st, j, plotId), j + 1, plotId)

\* setupHighlight(plotId) on the subscription and console state
\* env = [controllers, warnings]: a missing element logs a warning and
\* returns; otherwise one closure is subscribed to both events.
setupHighlightNoReturn(env, plotId) ==
    IF ~getElementById(plotId)
    THEN [env EXCEPT !.warnings =
              Append(@, <<"Plot element not found: ", plotId>>),
                     !.controllers[plotId] = Append(@, NewController)]
    ELSE [env EXCEPT !.controllers[plotId] = Append(@, NewController)]
setupHighlight(env, plotId) ==
    IF ~getElementById(plotId)
    THEN [env EXCEPT !.warnings =
              Append(@, <<"Plot element not found: ", plotId>>)]
    ELSE [env EXCEPT !.controllers[plotId] = Append(@, NewController)]

\* plotIds.forEach(function(id) { setupHighlight(id); })
RECURSIVE setupAllHighlightsStopAtMissing(_, _)
setupAllHighlightsStopAtMissing(env, plotIds) ==
    IF plotIds = <<>> THEN env
    ELSE IF ~getElementById(Head(plotIds))
         THEN setupHighlight(env, Head(plotIds))
         ELSE setupAllHighlightsStopAtMissing(
                  setupHighlight(env, Head(plotIds)), Tail(plotIds))
RECURSIVE setupAllHighlights(_, _)
setupAllHighlights(env, plotIds) ==
    IF plotIds = <<>> THEN env
    ELSE setupAllHighlights(setupHighlight(env, Head(plotIds)), Tail(plotIds))

\* ------------------------------------------------ createTeamLineChart
\* The values the two globals are initialised with (lines 111-137);
\* legend.x and legend.y are held in hundredths.
DefaultLayoutValue ==
    [font |-> [family |->
        "-apple-system, BlinkMacSystemFont, 'Segoe UI', Roboto, sans-serif"],
     paper_bgcolor |-> "rgba(0,0,0,0)",
     plot_bgcolor |-> "rgba(0,0,0,0)",
     margin |-> [t |-> 50, r |-> 30, b |-> 50, l |-> 60],
     hovermode |-> "closest",
     legend |-> [orientation |-> "v", x |-> 102, y |-> 100,
                 bgcolor |-> "rgba(255,255,255,0.9)",
                 bordercolor |-> "#ddd", borderwidth |-> 1]]
DefaultConfigValue ==
    [responsive |-> TRUE, displayModeBar |-> TRUE,
     modeBarButtonsToRemove |-> <<"lasso2d", "select2d">>,
     displaylogo |-> FALSE]

\* '<b>' + team.name + '</b><br>' + data.xLabel + ': %{x}<br>' +
\* data.yLabel + ': %{y:.1f}<extra></extra>'
HoverTemplate(team, chartData) ==
    <<"<b>">> \o <<team.name>> \o <<"</b><br>">> \o
    <<chartData.xLabel>> \o <<": %{x}<br>">> \o
    <<chartData.yLabel>> \o <<": %{y:.1f}<extra></extra>">>

\* The callback of data.teams.map: the trace of one team.
TeamTrace(team, chartData) ==
    [x |-> chartData.x,
     y |-> team.y,
     name |-> team.name,
     type |-> "scatter",
     mode |-> "lines+markers",
     line |-> [color |-> team.color, width |-> TraceWidth],
     marker |-> [size |-> MarkerSize],
     hovertemplate |-> HoverTemplate(team, chartData)]

\* data.teams.map(function(team, i) {...})
TeamTracesReversed(chartData) ==
    [i \in 1..Len(chartData.teams) |->
        TeamTrace(chartData.teams[Len(chartData.teams) + 1 - i], chartData)]
TeamTraces(chartData) ==
    [i \in 1..Len(chartData.teams) |-> TeamTrace(chartData.teams[i], chartData)]

\* Object.assign({}, defaultLayout, layout)
FullLayoutDeep(defaults, layout) ==
    [k \in DOMAIN defaults \cup DOMAIN layout |->
        IF k \in DOMAIN layout
        THEN IF k \in {"font", "margin", "legend"} /\ k \in DOMAIN defaults
             THEN ObjectAssign(defaults[k], layout[k])
             ELSE layout[k]
        ELSE defaults[k]]
FullLayout(defaults, layout) == ObjectAssign(defaults, layout)

\* The global defaultLayout after Object.assign({}, defaultLayout, layout):
\* Object.assign writes its first argument only, here the fresh {}, and
\* reads the others.
DefaultLayoutAssignedInPlace(defaults, layout) ==
    ObjectAssign(defaults, layout)
DefaultLayoutAfterAssign(defaults, layout) ==
    defaults

\* The arguments of the Plotly.newPlot call of createTeamLineChart.
NewPlotArgs(plotId, chartData, layout, defaults, config) ==
    [plotId |-> plotId,
     traces |-> TeamTraces(chartData),
     layout |-> FullLayout(defaults, layout),
     config |-> config]

\* ------------------------------------------------------------- inputs
\* Traces of a chart the page rendered itself, before any controller is
\* attached: opacity unset, between 0 and 1, 0 and 1; line unset, without
\* a width, of width 0 and of width 3.
InitialStyles ==
    { [type |-> "scatter"],
      [type |-> "scatter", opacity |-> 50, line |-> [width |-> 30]],
      [type |-> "scatter", opacity |-> 0, line |-> [color |-> "#333"]],
      [type |-> "scatter", opacity |-> 100, line |-> [width |-> 0]] }
InitialCharts == UNION {[1..n -> InitialStyles] : n \in 1..(MaxTraces - 1)}

\* The trace the page adds with Plotly.addTraces.
AddedTrace == [type |-> "scatter", opacity |-> 80, line |-> [width |-> 10]]

\* The inputs of createTeamLineChart.
TeamPool ==
    { [name |-> "Aces", y |-> <<1015, 987>>, color |-> "rgb(52,152,219)"],
      [name |-> "Bolts", y |-> <<880, 1102>>, color |-> "rgb(231,76,60)"] }
ChartInputs ==
    { [x |-> <<1, 2>>, teams |-> t, xLabel |-> "Week", yLabel |-> "Points"] :
        t \in UNION {[1..n -> TeamPool] : n \in 0..MaxTeams} }
LayoutInputs ==
    { EmptyObject,
      [title |-> "Standings", hovermode |-> "x"],
      [margin |-> [t |-> 10]] }

\* The chart the pointer moves over.
Pointed == {"plotA"}

IdLists == UNION {[1..n -> PlotIds] : n \in 0..MaxIds}

\* ------------------------------------------------------------ actions
Op(op, plotIds, arg) == [op |-> op, plotIds |-> plotIds, arg |-> arg]

Env == [controllers |-> controllers, warnings |-> warnings]
WithinBounds(env) ==
    /\ Len(env.controllers["plotA"]) + Len(env.controllers["plotB"])
          <= MaxControllers
    /\ Len(env.warnings) <= MaxWarnings

\* The page calls setupHighlight(plotId).
SetupHighlight(plotId) ==
    LET env == setupHighlight(Env, plotId)
    IN  /\ WithinBounds(env)
        /\ controllers' = env.controllers
        /\ warnings' = env.warnings
        /\ restyled' = <<>>
        /\ last' = Op("setupHighlight", <<plotId>>, 0)
        /\ UNCHANGED <<data, hoverdata, pending, newPlotCalls, colors,
                       defaultLayout, defaultConfig, original, hovered,
                       seriesChanges>>

\* The page calls setupAllHighlights(plotIds).
SetupAllHighlights(plotIds) ==
    LET env == setupAllHighlights(Env, plotIds)
    IN  /\ WithinBounds(env)
        /\ controllers' = env.controllers
        /\ warnings' = env.warnings
        /\ restyled' = <<>>
        /\ last' = Op("setupAllHighlights", plotIds, 0)
        /\ UNCHANGED <<data, hoverdata, pending, newPlotCalls, colors,
                       defaultLayout, defaultConfig, original, hovered,
                       seriesChanges>>

\* The library emits plotly_hover on a chart: the pointer is over trace
\* curveNumber.
HoverSharedSnapshot(plotId, curveNumber) ==
    /\ curveNumber \in 0..(Len(data[plotId]) - 1)
    /\ LET st == EmitHover([cs |-> controllers[plotId],
                            traces |-> data[plotId], calls |-> <<>>],
                           1, plotId, curveNumber)
           first == plotId \notin hovered /\ controllers[plotId] # <<>>
       IN  /\ controllers' =
                 IF st.cs = <<>> THEN controllers
                 ELSE [id \in PlotIds |->
                          [j \in 1..Len(controllers[id]) |-> st.cs[1]]]
           /\ data' = [data EXCEPT ![plotId] = st.traces]
           /\ restyled' = st.calls
           /\ original' = IF first
                          THEN [original EXCEPT ![plotId] = data[plotId]]
                          ELSE original
           /\ hovered' = IF first THEN hovered \cup {plotId} ELSE hovered
    /\ hoverdata' = [hoverdata EXCEPT ![plotId] = TRUE]
    /\ last' = Op("hover", <<plotId>>, curveNumber)
    /\ UNCHANGED <<pending, warnings, newPlotCalls, colors, defaultLayout,
                   defaultConfig, seriesChanges>>
Hover(plotId, curveNumber) ==
    /\ curveNumber \in 0..(Len(data[plotId]) - 1)
    /\ LET st == EmitHover([cs |-> controllers[plotId],
                            traces |-> data[plotId], calls |-> <<>>],
                           1, plotId, curveNumber)
           first == plotId \notin hovered /\ controllers[plotId] # <<>>
       IN  /\ controllers' = [controllers EXCEPT ![plotId] = st.cs]
           /\ data' = [data EXCEPT ![plotId] = st.traces]
           /\ restyled' = st.calls
           /\ original' = IF first
                          THEN [original EXCEPT ![plotId] = data[plotId]]
                          ELSE original
           /\ hovered' = IF first THEN hovered \cup {plotId} ELSE hovered
    /\ hoverdata' = [hoverdata EXCEPT ![plotId] = TRUE]
    /\ last' = Op("hover", <<plotId>>, curveNumber)
    /\ UNCHANGED <<pending, warnings, newPlotCalls, colors, defaultLayout,
                   defaultConfig, seriesChanges>>

\* The library emits plotly_unhover on a chart: the pointer leaves the
\* trace it was over.
Unhover(plotId) ==
    /\ hoverdata[plotId]
    /\ LET st == EmitUnhover([cs |-> controllers[plotId],
                              traces |-> data[plotId], calls |-> <<>>],
                             1, plotId)
       IN  /\ data' = [data EXCEPT ![plotId] = st.traces]
           /\ restyled' = st.calls
    /\ hoverdata' = [hoverdata EXCEPT ![plotId] = FALSE]
    /\ last' = Op("unhover", <<plotId>>, 0)
    /\ UNCHANGED <<controllers, pending, warnings, newPlotCalls, colors,
                   defaultLayout, defaultConfig, original, hovered,
                   seriesChanges>>

\* The page adds a trace to a chart (Plotly.addTraces).
AddTraces(plotId) ==
    /\ plotId \in Document
    /\ Len(data[plotId]) < MaxTraces
    /\ data' = [data EXCEPT ![plotId] = Append(@, AddedTrace)]
    /\ seriesChanges[plotId] < MaxSeriesChanges
    /\ seriesChanges' = [seriesChanges EXCEPT ![plotId] = @ + 1]
    /\ restyled' = <<>>
    /\ last' = Op("addTraces", <<plotId>>, 0)
    /\ UNCHANGED <<controllers, hoverdata, pending, warnings, newPlotCalls,
                   colors, defaultLayout, defaultConfig, original, hovered>>

\* The page deletes the last trace of a chart (Plotly.deleteTraces).
DeleteTraces(plotId) ==
    /\ Len(data[plotId]) >= 1
    /\ data' = [data EXCEPT ![plotId] = SubSeq(@, 1, Len(@) - 1)]
    /\ seriesChanges[plotId] < MaxSeriesChanges
    /\ seriesChanges' = [seriesChanges EXCEPT ![plotId] = @ + 1]
    /\ restyled' = <<>>
    /\ last' = Op("deleteTraces", <<plotId>>, 0)
    /\ UNCHANGED <<controllers, hoverdata, pending, warnings, newPlotCalls,
                   colors, defaultLayout, defaultConfig, original, hovered>>

\* The page calls getTeamColors(numTeams).
GetTeamColors(numTeams) ==
    /\ colors' = getTeamColors(numTeams)
    /\ restyled' = <<>>
    /\ last' = Op("getTeamColors", <<>>, numTeams)
    /\ UNCHANGED <<data, controllers, hoverdata, pending, warnings,
                   newPlotCalls, defaultLayout, defaultConfig, original,
                   hovered, seriesChanges>>

CreateTeamLineChartAttachingAtOnce(plotId, chartData, layout) ==
    /\ plotId \in Document
    /\ \A i \in 1..Len(newPlotCalls) : newPlotCalls[i].plotId # plotId
    /\ LET args == NewPlotArgs(plotId, chartData, layout,
                               defaultLayout, defaultConfig)
           env == setupHighlight(Env, plotId)
       IN  /\ WithinBounds(env)
           /\ newPlotCalls' = Append(newPlotCalls, args)
           /\ data' = [data EXCEPT ![plotId] = args.traces]
           /\ controllers' = env.controllers
    /\ pending' = pending
    /\ restyled' = <<>>
    /\ last' = Op("createTeamLineChart", <<plotId>>,
                  [data |-> chartData, layout |-> layout])
    /\ defaultLayout' = DefaultLayoutAfterAssign(defaultLayout, layout)
    /\ UNCHANGED <<hoverdata, warnings, colors, defaultConfig, original,
                   hovered, seriesChanges>>

\* The page calls createTeamLineChart(plotId, data, layout) on an element
\* that holds no chart yet.  Plotly.newPlot takes the traces as the
\* element's data at once and returns a promise; the callback given to
\* then() runs when the promise resolves (RenderDone).
CreateTeamLineChart(plotId, chartData, layout) ==
    /\ plotId \in Document
    /\ \A i \in 1..Len(newPlotCalls) : newPlotCalls[i].plotId # plotId
    /\ LET args == NewPlotArgs(plotId, chartData, layout,
                               defaultLayout, defaultConfig)
       IN  /\ newPlotCalls' = Append(newPlotCalls, args)
           /\ data' = [data EXCEPT ![plotId] = args.traces]
    /\ pending' = pending \cup {plotId}
    /\ restyled' = <<>>
    /\ last' = Op("createTeamLineChart", <<plotId>>,
                  [data |-> chartData, layout |-> layout])
    /\ defaultLayout' = DefaultLayoutAfterAssign(defaultLayout, layout)
    /\ UNCHANGED <<controllers, hoverdata, warnings, colors, defaultConfig,
                   original, hovered, seriesChanges>>

\* The promise of Plotly.newPlot resolves: function() { setupHighlight(plotId); }
RenderDone(plotId) ==
    /\ plotId \in pending
    /\ pending' = pending \ {plotId}
    /\ LET env == setupHighlight(Env, plotId)
       IN  /\ WithinBounds(env)
           /\ controllers' = env.controllers
           /\ warnings' = env.warnings
    /\ restyled' = <<>>
    /\ last' = Op("renderDone", <<plotId>>, 0)
    /\ UNCHANGED <<data, hoverdata, newPlotCalls, colors, defaultLayout,
                   defaultConfig, original, hovered, seriesChanges>>

\* ----------------------------------------------------- specifications
InitCommon ==
    /\ controllers = [id \in PlotIds |-> <<>>]
    /\ hoverdata = [id \in PlotIds |-> FALSE]
    /\ pending = {}
    /\ warnings = <<>>
    /\ restyled = <<>>
    /\ newPlotCalls = <<>>
    /\ colors = <<>>
    /\ defaultLayout = DefaultLayoutValue
    /\ defaultConfig = DefaultConfigValue
    /\ last = Op("init", <<>>, 0)
    /\ original = [id \in PlotIds |-> <<>>]
    /\ hovered = {}
    /\ seriesChanges = [id \in PlotIds |-> 0]

\* The chart of each surface as the page rendered it.
FixedCharts ==
    [id \in PlotIds |->
        IF id = "plotA" THEN <<[type |-> "scatter"], AddedTrace>>
        ELSE IF id = "plotB" THEN <<AddedTrace, [type |-> "scatter"]>>
        ELSE <<>>]

\* The highlight controller on one chart the page rendered itself, of any
\* initial style: setupHighlight on it, the pointer over it, and changes
\* of its series set.
Init ==
    /\ InitCommon
    /\ \E a \in InitialCharts :
          data = [FixedCharts EXCEPT !["plotA"] = a]

Next ==
    \/ \E id \in Pointed :
          Len(controllers[id]) < MaxAttached /\ SetupHighlight(id)
    \/ \E id \in Pointed : \E k \in 0..(MaxTraces - 1) : Hover(id, k)
    \/ \E id \in Pointed : Unhover(id)
    \/ \E id \in Pointed : AddTraces(id)
    \/ \E id \in Pointed : DeleteTraces(id)

Spec == Init /\ [][Next]_vars

\* The page with its surfaces: setupHighlight and setupAllHighlights on
\* any ids, the missing one included, and the pointer over either chart.
InitPage ==
    /\ InitCommon
    /\ data = FixedCharts

NextPage ==
    \/ \E id \in PlotIds : SetupHighlight(id)
    \/ \E ids \in IdLists : SetupAllHighlights(ids)
    \/ \E id \in Document : \E k \in 0..1 : Hover(id, k)
    \/ \E id \in Document : Unhover(id)

SpecPage == InitPage /\ [][NextPage]_vars

\* The palette generator.
InitPalette ==
    /\ InitCommon
    /\ data = [id \in PlotIds |-> <<>>]

NextPalette == \E n \in 0..MaxColors : GetTeamColors(n)

SpecPalette == InitPalette /\ [][NextPalette]_vars

\* The chart factory on empty elements, and the pointer on its chart.
InitFactory ==
    /\ InitCommon
    /\ data = [id \in PlotIds |-> <<>>]

NextFactory ==
    \/ \E id \in Document : \E d \in ChartInputs : \E l \in LayoutInputs :
          CreateTeamLineChart(id, d, l)
    \/ \E id \in Document : RenderDone(id)
    \/ \E id \in Pointed : \E k \in 0..(MaxTeams - 1) : Hover(id, k)
    \/ \E id \in Pointed : Unhover(id)

SpecFactory == InitFactory /\ [][NextFactory]_vars

\* ------------------------------------------------------------- claims
\* What a chart shows for a trace: the attribute it holds, or the
\* library's default (opacity 1, line width 2) where it holds none.
ShownOpacity(trace) ==
    IF "opacity" \in DOMAIN trace THEN trace.opacity ELSE 100
ShownWidth(trace) ==
    IF "line" \in DOMAIN trace /\ "width" \in DOMAIN trace.line
    THEN trace.line.width ELSE 20

LastId == last.plotIds[1]
Abs(a) == IF a < 0 THEN -a ELSE a
Range(s) == {s[i] : i \in 1..Len(s)}

\* C1: on a chart with one controller and an unchanged series set, every
\* unhover after the first hover restyles each series to the opacity and
\* line width the chart showed just before that first hover.
C1_UnhoverRestoresOriginal ==
    (/\ last.op = "unhover"
     /\ LastId \in hovered
     /\ Len(controllers[LastId]) = 1
     /\ seriesChanges[LastId] = 0)
    => /\ Len(restyled) = 1
       /\ restyled[1].opacity =
            [i \in 1..Len(original[LastId]) |->
                ShownOpacity(original[LastId][i])]
       /\ restyled[1].width =
            [i \in 1..Len(original[LastId]) |->
                ShownWidth(original[LastId][i])]

\* C2: every restyle a hover on series k of an n-series chart issues carries
\* two vectors of length n, with opacity 1.0 and width 4 at index k and
\* opacity 0.15 and width 1.5 at every other index, whatever the snapshot.
C2_HoverVectors ==
    last.op = "hover" =>
        \A j \in 1..Len(restyled) :
            /\ restyled[j].gd = LastId
            /\ Len(restyled[j].opacity) = Len(data[LastId])
            /\ Len(restyled[j].width) = Len(data[LastId])
            /\ \A i \in 0..(Len(data[LastId]) - 1) :
                  /\ restyled[j].opacity[i + 1] =
                        (IF i = last.arg THEN 100 ELSE 15)
                  /\ restyled[j].width[i + 1] =
                        (IF i = last.arg THEN 40 ELSE 15)

\* C2: a hover on index 1 of three series, by a controller primed when the
\* chart had two series, issues [0.15, 1.0, 0.15] and [1.5, 4, 1.5].
C2_Witness ==
    /\ last.op = "hover" /\ last.arg = 1
    /\ Len(data[LastId]) = 3
    /\ Len(controllers[LastId]) = 1
    /\ Len(controllers[LastId][1].originalOpacities) = 2
    /\ restyled = <<[gd |-> LastId, opacity |-> <<15, 100, 15>>,
                     width |-> <<15, 40, 15>>]>>

Primed(c) == c.originalOpacities # <<>>
IsHoverOn(op, id) == op.op = "hover" /\ op.plotIds = <<id>>

\* C3: a controller is subscribed Unprimed, becomes Primed by the first
\* hover it receives and by no other step, and once Primed its snapshot is
\* never changed again: not by hover or unhover, not by a change of the
\* series set or of the series' styles.
C3_SnapshotCapturedOnce ==
    [][\A id \in PlotIds :
        /\ Len(controllers'[id]) >= Len(controllers[id])
        /\ \A j \in 1..Len(controllers'[id]) :
              IF j > Len(controllers[id])
              THEN ~Primed(controllers'[id][j])
              ELSE /\ Primed(controllers[id][j])
                        => controllers'[id][j] = controllers[id][j]
                   /\ controllers'[id][j] # controllers[id][j]
                        => IsHoverOn(last', id)
                   /\ (IsHoverOn(last', id) /\ last' # last)
                        => /\ Primed(controllers'[id][j])
                           /\ Len(controllers'[id][j].originalLineWidths)
                                = Len(controllers'[id][j].originalOpacities)
      ]_vars

\* C3: a Primed controller on a dimmed chart whose series set has changed
\* since: the snapshot is shorter or longer than the chart.
C3_Witness ==
    \E id \in Document :
        /\ controllers[id] # <<>>
        /\ Primed(controllers[id][1])
        /\ seriesChanges[id] > 0
        /\ Len(controllers[id][1].originalOpacities) # Len(data[id])
        /\ last.op = "hover"

\* C4: setupHighlight on an id that resolves to no element subscribes
\* nothing on any surface, issues no restyle, changes no chart and logs
\* exactly one warning.
C4_MissingElementOnlyWarns ==
    [][(last'.op = "setupHighlight" /\ ~getElementById(last'.plotIds[1]))
        => /\ controllers' = controllers
           /\ data' = data
           /\ restyled' = <<>>
           /\ warnings' = Append(warnings,
                  <<"Plot element not found: ", last'.plotIds[1]>>)
      ]_vars

\* C4: setupHighlight("missing") on a fresh page: one warning, no controller.
C4_Witness ==
    /\ last = Op("setupHighlight", <<"missing">>, 0)
    /\ warnings = <<(<<"Plot element not found: ", "missing">>)>>
    /\ \A id \in PlotIds : controllers[id] = <<>>

Plotted(id) == \E i \in 1..Len(newPlotCalls) : newPlotCalls[i].plotId = id

\* C5: createTeamLineChart subscribes nothing itself; a surface has a
\* controller only once its render has completed; while the render is
\* pending the surface has none, a hover on it restyles nothing and no
\* warning is logged.
C5_AttachOnlyAfterRender ==
    /\ \A id \in PlotIds :
          /\ id \in pending => controllers[id] = <<>>
          /\ controllers[id] # <<>> => (Plotted(id) /\ id \notin pending)
    /\ last.op = "createTeamLineChart"
          => (LastId \in pending /\ controllers[LastId] = <<>>)
    /\ (last.op = "hover" /\ LastId \in pending) => restyled = <<>>
    /\ warnings = <<>>

\* C5: a hover on a chart whose render is still pending restyles nothing.
C5_Witness ==
    /\ last.op = "hover"
    /\ LastId \in pending
    /\ Len(data[LastId]) = 2
    /\ restyled = <<>>

\* C6: getTeamColors(1) returns exactly one color, the start color.
C6_PaletteOfOneIsStart ==
    (last.op = "getTeamColors" /\ last.arg = 1)
        => colors = <<(<<"rgb(", "52", ",", "152", ",", "219", ")">>)>>

\* The channel string is an integer nearest to
\* from + (to - from) * i / (n - 1).
NearestTo(str, from, to, i, n) ==
    LET scaled == from * (n - 1) + (to - from) * i
        floor == scaled \div (n - 1)
    IN  \E v \in {floor, floor + 1} :
            /\ str = ToString(v)
            /\ 2 * Abs(v * (n - 1) - scaled) <= n - 1

\* C7: for n >= 2, getTeamColors(n) returns n colors, the first the start
\* color, the last the end color, and every channel of color i the
\* nearest integer to start + (end - start) * i / (n - 1).
C7_LinearInterpolation ==
    (last.op = "getTeamColors" /\ last.arg >= 2) =>
        /\ Len(colors) = last.arg
        /\ colors[1] = <<"rgb(", "52", ",", "152", ",", "219", ")">>
        /\ colors[last.arg] = <<"rgb(", "231", ",", "76", ",", "60", ")">>
        /\ \A i \in 0..(last.arg - 1) :
              /\ Len(colors[i + 1]) = 7
              /\ colors[i + 1][1] = "rgb("
              /\ NearestTo(colors[i + 1][2], 52, 231, i, last.arg)
              /\ colors[i + 1][3] = ","
              /\ NearestTo(colors[i + 1][4], 152, 76, i, last.arg)
              /\ colors[i + 1][5] = ","
              /\ NearestTo(colors[i + 1][6], 219, 60, i, last.arg)
              /\ colors[i + 1][7] = ")"

\* C7: the middle of three colors lies on two ties, 141.5 and 139.5, which
\* round up.
C7_Witness ==
    /\ last.op = "getTeamColors" /\ last.arg = 3
    /\ colors[2] = <<"rgb(", "142", ",", "114", ",", "140", ")">>

\* The number a channel string of a color denotes.
ChannelValue(str) == CHOOSE v \in 0..255 : ToString(v) = str

Monotonic(cs) ==
    \A i \in 1..(Len(cs) - 1) :
        /\ ChannelValue(cs[i][2]) <= ChannelValue(cs[i + 1][2])
        /\ ChannelValue(cs[i][4]) >= ChannelValue(cs[i + 1][4])
        /\ ChannelValue(cs[i][6]) >= ChannelValue(cs[i + 1][6])
PairwiseDistinct(cs) ==
    \A i \in 1..Len(cs) : \A j \in (i + 1)..Len(cs) : cs[i] # cs[j]

\* C8, for every n: for every n >= 2 the n colors are pairwise distinct and
\* red never decreases, green and blue never increase along the index.
C8_DistinctAndMonotonic ==
    (last.op = "getTeamColors" /\ last.arg >= 2)
        => (PairwiseDistinct(colors) /\ Monotonic(colors))

\* C8, up to 181 colors: for every n >= 2 each channel is monotonic, and
\* for 2 <= n <= 181 the n colors are pairwise distinct (182 colors hold
\* rgb(97,133,179) twice).
C8_MonotonicAndDistinctTo181 ==
    (last.op = "getTeamColors" /\ last.arg >= 2)
        => /\ Monotonic(colors)
           /\ last.arg <= 181 => PairwiseDistinct(colors)

\* C8: 181 colors, all different.
C8_Witness ==
    /\ last.op = "getTeamColors" /\ last.arg = 181
    /\ Cardinality(Range(colors)) = 181

LastCall == newPlotCalls[Len(newPlotCalls)]

\* C9: the traces handed to Plotly.newPlot are one per team record, in the
\* order of the team records; trace i carries team i's name, y values and
\* color, the shared x sequence, and a hover template that holds the
\* team's name and, after it, the y value with one decimal (%{y:.1f}).
C9_OneTracePerTeam ==
    last.op = "createTeamLineChart" =>
        LET d == last.arg.data
            traces == LastCall.traces
        IN  /\ LastCall.plotId = LastId
            /\ Len(traces) = Len(d.teams)
            /\ \A i \in 1..Len(d.teams) :
                  /\ traces[i].name = d.teams[i].name
                  /\ traces[i].y = d.teams[i].y
                  /\ traces[i].line.color = d.teams[i].color
                  /\ traces[i].x = d.x
                  /\ \E m, n \in 1..Len(traces[i].hovertemplate) :
                        /\ m < n
                        /\ traces[i].hovertemplate[m] = d.teams[i].name
                        /\ traces[i].hovertemplate[n] =
                              ": %{y:.1f}<extra></extra>"

\* C9: two different teams; the second trace is the second team's.
C9_Witness ==
    /\ last.op = "createTeamLineChart"
    /\ Len(last.arg.data.teams) = 2
    /\ last.arg.data.teams[1].name = "Aces"
    /\ LastCall.traces[2].name = "Bolts"
    /\ LastCall.traces[2].y = <<880, 1102>>

\* C10: the layout handed to Plotly.newPlot holds the keys of the default
\* layout and of the overrides and no other; a key of the overrides has
\* the override's value as a whole, every other key the default's value.
C10_ShallowMerge ==
    last.op = "createTeamLineChart" =>
        LET l == last.arg.layout
            full == LastCall.layout
        IN  /\ DOMAIN full = DOMAIN DefaultLayoutValue \cup DOMAIN l
            /\ \A k \in DOMAIN l : full[k] = l[k]
            /\ \A k \in DOMAIN DefaultLayoutValue \ DOMAIN l :
                  full[k] = DefaultLayoutValue[k]

\* C10: overriding margin with {t: 10} loses the default r, b and l.
C10_Witness ==
    /\ last.op = "createTeamLineChart"
    /\ last.arg.layout = [margin |-> [t |-> 10]]
    /\ DOMAIN LastCall.layout.margin = {"t"}
    /\ LastCall.layout.hovermode = "closest"

\* C11: every unhover restyles with vectors as long as the chart's series
\* list is at the event, also after the list grew or shrank; an index the
\* controller's snapshot does not hold (all of them while the controller
\* is Unprimed) gets opacity 1.0 and width 2, every other index the value
\* the snapshot holds for it.
C11_UnhoverDefaultsPastSnapshot ==
    last.op = "unhover" =>
        \A j \in 1..Len(restyled) :
            LET c == controllers[LastId][j]
                n == Len(data[LastId])
            IN  /\ Len(restyled[j].opacity) = n
                /\ Len(restyled[j].width) = n
                /\ \A i \in 1..n :
                     IF i <= Len(c.originalOpacities)
                     THEN /\ restyled[j].opacity[i] = c.originalOpacities[i]
                          /\ restyled[j].width[i] = c.originalLineWidths[i]
                     ELSE /\ restyled[j].opacity[i] = 100
                          /\ restyled[j].width[i] = 20

\* C11: a trace was added after the snapshot was taken; the unhover gives
\* the first trace its snapshot style and the added one opacity 1.0 and
\* width 2.
C11_Witness ==
    /\ last.op = "unhover"
    /\ Len(restyled) = 1
    /\ LET c == controllers[LastId][1]
           n == Len(data[LastId])
       IN  /\ Primed(c)
           /\ Len(c.originalOpacities) < n
           /\ c.originalOpacities[1] = 50
           /\ restyled[1].opacity[1] = 50
           /\ restyled[1].width[1] = 30
           /\ restyled[1].opacity[n] = 100
           /\ restyled[1].width[n] = 20
           /\ data[LastId][n].opacity = 100

\* C12: a hover or unhover event makes each controller subscribed on the
\* chart issue exactly one Plotly.restyle call, on that chart, carrying an
\* opacity vector and a line-width vector, each as long as the chart's
\* series list at the event; every other operation (setup, a change of
\* the series list) issues no restyle call.
C12_OneRestylePerEvent ==
    IF last.op \in {"hover", "unhover"}
    THEN /\ Len(restyled) = Len(controllers[LastId])
         /\ \A j \in 1..Len(restyled) :
               /\ DOMAIN restyled[j] = {"gd", "opacity", "width"}
               /\ restyled[j].gd = LastId
               /\ Len(restyled[j].opacity) = Len(data[LastId])
               /\ Len(restyled[j].width) = Len(data[LastId])
    ELSE restyled = <<>>

\* C12: a hover on a chart of three series, one of them added after the
\* controller was attached, gives one call with two vectors of length 3.
C12_Witness ==
    /\ last.op = "hover"
    /\ Len(controllers[LastId]) = 1
    /\ seriesChanges[LastId] = 1
    /\ Len(data[LastId]) = 3
    /\ Len(restyled) = 1
    /\ Len(restyled[1].opacity) = 3
    /\ Len(restyled[1].width) = 3

\* Every trace of chart id shows the opacity and width it showed just
\* before the first hover its controllers received.
ShowsOriginal(traces, before) ==
    /\ Len(traces) = Len(before)
    /\ \A i \in 1..Len(traces) :
          /\ ShownOpacity(traces[i]) = ShownOpacity(before[i])
          /\ ShownWidth(traces[i]) = ShownWidth(before[i])

\* C13: a hover or unhover event on one chart leaves every other chart's
\* controllers (snapshot and prime state), traces and pointer state as
\* they were and issues restyle calls on the event's chart only; so the
\* unhover of a chart with one primed controller restores that chart's
\* own original styles, whatever happened on the other chart.
C13_ChartsIndependent ==
    [][\A id \in Document :
          (last'.op \in {"hover", "unhover"} /\ last'.plotIds = <<id>>) =>
             /\ \A other \in PlotIds \ {id} :
                   /\ controllers'[other] = controllers[other]
                   /\ data'[other] = data[other]
                   /\ hoverdata'[other] = hoverdata[other]
             /\ \A j \in 1..Len(restyled') : restyled'[j].gd = id
             /\ (/\ last'.op = "unhover"
                 /\ Len(controllers'[id]) = 1
                 /\ Primed(controllers'[id][1]))
                => ShowsOriginal(data'[id], original'[id])
      ]_vars

\* C13: both charts have a primed controller, each with its own snapshot;
\* an unhover on plotA has restored plotA while plotB is still dimmed.
C13_Witness ==
    /\ last = Op("unhover", <<"plotA">>, 0)
    /\ Len(controllers["plotA"]) = 1
    /\ Len(controllers["plotB"]) = 1
    /\ Primed(controllers["plotA"][1])
    /\ Primed(controllers["plotB"][1])
    /\ controllers["plotA"][1] # controllers["plotB"][1]
    /\ hoverdata["plotB"]
    /\ data["plotB"][1].opacity = 15
    /\ Len(restyled) = 1
    /\ ShowsOriginal(data["plotA"], original["plotA"])

\* C14: on a chart with several controllers subscribed before the first
\* hover (setupHighlight called more than once on it), so that each of
\* them receives every hover and unhover event, an unhover leaves every
\* series with the opacity and line width the chart showed before the
\* first hover.
C14_RepeatedSetupStillRestores ==
    (/\ last.op = "unhover"
     /\ LastId \in hovered
     /\ Len(controllers[LastId]) >= 2
     /\ \A j \in 1..Len(controllers[LastId]) :
           Primed(controllers[LastId][j]))
    => ShowsOriginal(data[LastId], original[LastId])

\* The entries of an id list that are id, counted.
Occurrences(ids, id) == Cardinality({i \in 1..Len(ids) : ids[i] = id})
Missing(id) == ~getElementById(id)

\* C15: setupAllHighlights(plotIds) subscribes one new Unprimed controller
\* on a surface for each entry of the list that names it, also for the
\* entries after one that resolves to nothing; it logs one warning for each
\* entry that resolves to nothing, in list order, and subscribes nothing
\* for it; it restyles nothing.
C15_EveryEntrySetUp ==
    [][last'.op = "setupAllHighlights" =>
          LET ids == last'.plotIds
              miss == SelectSeq(ids, Missing)
          IN  /\ \A id \in Document :
                    controllers'[id] =
                        controllers[id] \o
                        [j \in 1..Occurrences(ids, id) |-> NewController]
              /\ \A id \in PlotIds \ Document :
                    controllers'[id] = controllers[id]
              /\ warnings' =
                    warnings \o
                    [j \in 1..Len(miss) |->
                        <<"Plot element not found: ", miss[j]>>]
              /\ restyled' = <<>>
      ]_vars

\* C15: the list names an id that resolves to nothing before plotA; the
\* warning is logged and plotA has its controller all the same.
C15_Witness ==
    /\ last = Op("setupAllHighlights", <<"missing", "plotA">>, 0)
    /\ warnings = <<<<"Plot element not found: ", "missing">>>>
    /\ controllers["plotA"] = <<NewController>>
    /\ controllers["plotB"] = <<>>
    /\ controllers["missing"] = <<>>

\* C16: createTeamLineChart leaves the two globals as they were
\* initialised, whatever overrides it is given; every call passes the
\* fixed config (responsive, mode bar shown, lasso2d and select2d
\* removed, no logo), and a call without overrides, after any calls with
\* overrides, passes a layout with the keys and values of the original
\* default layout.
C16_DefaultsUnchanged ==
    /\ defaultLayout = DefaultLayoutValue
    /\ defaultConfig = DefaultConfigValue
    /\ \A i \in 1..Len(newPlotCalls) :
          /\ DOMAIN newPlotCalls[i].config =
                {"responsive", "displayModeBar", "modeBarButtonsToRemove",
                 "displaylogo"}
          /\ newPlotCalls[i].config.responsive = TRUE
          /\ newPlotCalls[i].config.displayModeBar = TRUE
          /\ newPlotCalls[i].config.modeBarButtonsToRemove =
                <<"lasso2d", "select2d">>
          /\ newPlotCalls[i].config.displaylogo = FALSE
    /\ (last.op = "createTeamLineChart" /\ last.arg.layout = EmptyObject)
       => /\ DOMAIN LastCall.layout = DOMAIN DefaultLayoutValue
          /\ \A k \in DOMAIN DefaultLayoutValue :
                LastCall.layout[k] = DefaultLayoutValue[k]

\* C16: the first call overrode hovermode and added a title; the second
\* call, without overrides, passes the default hovermode and no title.
C16_Witness ==
    /\ Len(newPlotCalls) = 2
    /\ newPlotCalls[1].layout.hovermode = "x"
    /\ "title" \in DOMAIN newPlotCalls[1].layout
    /\ last.op = "createTeamLineChart"
    /\ last.arg.layout = EmptyObject
    /\ LastCall.layout.hovermode = "closest"
    /\ "title" \notin DOMAIN LastCall.layout
    /\ LastCall.config.displaylogo = FALSE

====
